---- MODULE Spec2Model ----
(***************************************************************************)
(* A model of the amphitheatre "common" crate: the docker credential       *)
(* transform (utils/credential.rs), the SCM git contract and its Gitea     *)
(* adapter and factory (scm/git.rs, scm/driver/gitea), and the Actor       *)
(* schema helpers (schema/actor.rs).                                       *)
(*                                                                         *)
(* The crate is a library: its state is the call in progress.  Every       *)
(* action is one call of a public operation with an input drawn from a     *)
(* bounded set; it records the operation (op), the input (arg) and what    *)
(* the call produced (ret).                                                *)
(*                                                                         *)
(* Conventions.  A Rust String that the code inspects or transforms is a   *)
(* sequence of one-character strings; an Option<T> is <<>> (None) or       *)
(* <<x>> (Some(x)); a Result or a panic is a record tagged by "tag".       *)
(***************************************************************************)
EXTENDS Integers, Sequences, FiniteSets, TLC

VARIABLES op, arg, ret

vars == <<op, arg, ret>>

(***************************************************************************)
(* Bounds of the model.                                                    *)
(***************************************************************************)
MaxStrLen == 2
MaxConditions == 2
MaxServices == 2
MaxPorts == 2
MaxTime == 1
MaxTreeEntries == 2

(***************************************************************************)
(* Option, Result, panic.                                                  *)
(***************************************************************************)
None == <<>>
Some(x) == <<x>>
Ok(v) == [tag |-> "Ok", val |-> v]
Err(k) == [tag |-> "Err", val |-> k]
Panic(m) == [tag |-> "Panic", val |-> m]

\* All sequences over S of length at most n.
StrOver(S, n) == UNION {[1..k -> S] : k \in 0..n}

(***************************************************************************)
(* Characters: the printable ASCII range, in code order starting at 32.    *)
(* The double quote (34), the backslash (92) and the backtick (96) are      *)
(* written by name.                                                        *)
(***************************************************************************)
AsciiChars ==
  << " ", "!", "QUOTE", "#", "$", "%", "&", "'", "(", ")", "*", "+", ",", "-", ".", "/",
     "0", "1", "2", "3", "4", "5", "6", "7", "8", "9", ":", ";", "<", "=", ">", "?",
     "@", "A", "B", "C", "D", "E", "F", "G", "H", "I", "J", "K", "L", "M", "N", "O",
     "P", "Q", "R", "S", "T", "U", "V", "W", "X", "Y", "Z", "[", "BACKSLASH", "]", "^", "_",
     "BACKTICK", "a", "b", "c", "d", "e", "f", "g", "h", "i", "j", "k", "l", "m", "n", "o",
     "p", "q", "r", "s", "t", "u", "v", "w", "x", "y", "z", "{", "|", "}", "~" >>

\* The byte of an ASCII character (its UTF-8 encoding is that single byte).
Ord(c) == 31 + (CHOOSE i \in 1..Len(AsciiChars) : AsciiChars[i] = c)
Chr(b) == AsciiChars[b - 31]

\* String::as_bytes
Bytes(s) == [i \in 1..Len(s) |-> Ord(s[i])]

(***************************************************************************)
(* base64::engine::general_purpose::STANDARD: the RFC 4648 alphabet,       *)
(* with "=" padding.                                                       *)
(***************************************************************************)
Base64Alphabet ==
  << "A", "B", "C", "D", "E", "F", "G", "H", "I", "J", "K", "L", "M", "N", "O", "P",
     "Q", "R", "S", "T", "U", "V", "W", "X", "Y", "Z", "a", "b", "c", "d", "e", "f",
     "g", "h", "i", "j", "k", "l", "m", "n", "o", "p", "q", "r", "s", "t", "u", "v",
     "w", "x", "y", "z", "0", "1", "2", "3", "4", "5", "6", "7", "8", "9", "+", "/" >>

Sextet(n) == Base64Alphabet[n + 1]

RECURSIVE Base64Encode(_)
Base64Encode(bs) ==
  IF Len(bs) = 0 THEN <<>>
  ELSE IF Len(bs) = 1 THEN
    << Sextet(bs[1] \div 4), Sextet((bs[1] % 4) * 16), "=", "=" >>
  ELSE IF Len(bs) = 2 THEN
    << Sextet(bs[1] \div 4),
       Sextet((bs[1] % 4) * 16 + bs[2] \div 16),
       Sextet((bs[2] % 16) * 4), "=" >>
  ELSE
    << Sextet(bs[1] \div 4),
       Sextet((bs[1] % 4) * 16 + bs[2] \div 16),
       Sextet((bs[2] % 16) * 4 + bs[3] \div 64),
       Sextet(bs[3] % 64) >> \o Base64Encode(SubSeq(bs, 4, Len(bs)))

(***************************************************************************)
(* utils/credential.rs                                                     *)
(***************************************************************************)
\* Credential::username_any / password_any (crate::config).
username_any(credential) == credential.username
password_any(credential) == credential.password

\* format!("{}:{}", a, b)
FormatColon(a, b) == a \o <<":">> \o b

\* A mutant of AuthConfigOf: the separator is left out of the encoded text.
AuthConfigOfNoColon(credential) ==
  [username |-> Some(username_any(credential)),
   password |-> Some(password_any(credential)),
   auth |-> Some(Base64Encode(Bytes(username_any(credential)
                                    \o password_any(credential))))]

\* The AuthConfig the loop body inserts for one credential.
AuthConfigOf(credential) ==
  [username |-> Some(username_any(credential)),
   password |-> Some(password_any(credential)),
   auth |-> Some(Base64Encode(Bytes(FormatColon(username_any(credential),
                                                password_any(credential)))))]

\* HashMap::insert
MapInsert(m, k, v) == [x \in DOMAIN m \cup {k} |-> IF x = k THEN v ELSE m[x]]

EmptyMap == [x \in {} |-> None]

\* The for loop over entries.iter(), in some iteration order.
RECURSIVE InsertAll(_, _, _)
InsertAll(auths, entries, todo) ==
  IF todo = {} THEN auths
  ELSE LET endpoint == CHOOSE e \in todo : TRUE
       IN InsertAll(MapInsert(auths, endpoint, AuthConfigOf(entries[endpoint])),
                    entries, todo \ {endpoint})

build_docker_config(entries) ==
  [auths |-> Some(InsertAll(EmptyMap, entries, DOMAIN entries))]

\* Inputs of build_docker_config.
Endpoints == {"registry.io", "ghcr.io"}
UserChars == {"u", "a"}
PassChars == {"p", ":"}
Credentials ==
  [username : StrOver(UserChars, MaxStrLen), password : StrOver(PassChars, MaxStrLen)]
EntryMaps == UNION {[E -> Credentials] : E \in SUBSET Endpoints}

BuildDockerConfig ==
  /\ op = "idle"
  /\ \E entries \in EntryMaps :
       /\ op' = "build_docker_config"
       /\ arg' = entries
       /\ ret' = build_docker_config(entries)

\* Base64 decoding of padded text, written from RFC 4648 section 4 and used
\* only to state what the encoded field must decode to.
SextetOf(c) == (CHOOSE i \in 1..Len(Base64Alphabet) : Base64Alphabet[i] = c) - 1

RECURSIVE Base64Decode(_)
Base64Decode(cs) ==
  IF Len(cs) < 4 THEN <<>>
  ELSE LET v1 == SextetOf(cs[1])
           v2 == SextetOf(cs[2])
           b1 == v1 * 4 + v2 \div 16
       IN IF cs[3] = "=" THEN <<b1>>
          ELSE LET v3 == SextetOf(cs[3])
                   b2 == (v2 % 16) * 16 + v3 \div 4
               IN IF cs[4] = "=" THEN <<b1, b2>>
                  ELSE <<b1, b2, (v3 % 4) * 64 + SextetOf(cs[4])>>
                       \o Base64Decode(SubSeq(cs, 5, Len(cs)))

\* The example of the specification: {"registry.io": {username: "u", password: "p"}}.
ExampleEntries == [e \in {"registry.io"} |-> [username |-> <<"u">>, password |-> <<"p">>]]
ExampleConfig ==
  [auths |-> Some([e \in {"registry.io"} |->
                     [username |-> Some(<<"u">>), password |-> Some(<<"p">>),
                      auth |-> Some(<<"d", "T", "p", "w">>)]])]

\* C1: build_docker_config is a per-entry map.  The result is {auths: M}, M has
\* exactly the endpoints of the input, and M[e] carries the credential's username
\* and password and an auth field that is the padded base64 text of
\* "username:password"; the registry.io example yields exactly the documented
\* value, and the empty input yields auths present and empty.
C1_DockerConfigPerEntryMap ==
  op = "build_docker_config" =>
    /\ DOMAIN ret = {"auths"}
    /\ Len(ret.auths) = 1
    /\ LET M == ret.auths[1]
       IN /\ DOMAIN M = DOMAIN arg
          /\ \A e \in DOMAIN arg :
               LET text == arg[e].username \o <<":">> \o arg[e].password
               IN /\ DOMAIN M[e] = {"username", "password", "auth"}
                  /\ M[e].username = <<arg[e].username>>
                  /\ M[e].password = <<arg[e].password>>
                  /\ Len(M[e].auth) = 1
                  /\ Len(M[e].auth[1]) = 4 * ((Len(text) + 2) \div 3)
                  /\ Base64Decode(M[e].auth[1]) = [i \in 1..Len(text) |-> Ord(text[i])]
    /\ (arg = ExampleEntries => ret = ExampleConfig)
    /\ (DOMAIN arg = {} => DOMAIN ret.auths[1] = {})

\* C1 witness: a two-registry input was transformed, one of whose encoded
\* fields needed padding.
C1_Witness ==
  /\ op = "build_docker_config"
  /\ DOMAIN arg = Endpoints
  /\ \E e \in DOMAIN arg :
       /\ arg[e].username # <<>>
       /\ ret.auths[1][e].auth[1][Len(ret.auths[1][e].auth[1])] = "="

(***************************************************************************)
(* scm/git.rs: the GitService contract, as the set of the operations it    *)
(* declares (name, parameter types after &self, result type).              *)
(***************************************************************************)
Signature(name, params, result) == [name |-> name, params |-> params, result |-> result]

GitService ==
  { Signature("list_branches", <<"&str", "ListOptions">>, "anyhow::Result<Vec<Reference>>"),
    Signature("list_tags", <<"&str", "ListOptions">>, "anyhow::Result<Vec<Reference>>"),
    Signature("find_commit", <<"&str", "&str">>, "anyhow::Result<Option<Commit>>"),
    Signature("git_trees", <<"&str", "&str", "&str">>, "anyhow::Result<Option<TreeResponse>>") }

(***************************************************************************)
(* scm/driver/gitea/git.rs: the Gitea adapter.                             *)
(***************************************************************************)
\* The operations of `impl GitService for GiteaGitService`.
GiteaGitServiceImpl ==
  { Signature("list_branches", <<"&str", "ListOptions">>, "anyhow::Result<Vec<Reference>>"),
    Signature("list_tags", <<"&str", "ListOptions">>, "anyhow::Result<Vec<Reference>>"),
    Signature("find_commit", <<"&str", "&str">>, "anyhow::Result<Option<Commit>>"),
    Signature("get_tree", <<"&str", "&str", "Option<bool>">>, "anyhow::Result<Option<Tree>>") }

\* todo!(): panics with this message.
todo == Panic("not yet implemented")

\* The four bodies.  None of them reads self.client, so none of them reaches
\* the backend.
list_branches(self, repo, opts) == todo
list_tags(self, repo, opts) == todo
find_commit(self, repo, reference) == todo
get_tree(self, repo, tree_sha, recursive) == todo

\* http::Client::new: a client bound to a base URL and an optional token.
Client_new(url, token) == [base_url |-> url, token |-> token]

\* constants::GITEA_ENDPOINT, the provider's default endpoint.
GITEA_ENDPOINT == "constants::GITEA_ENDPOINT"

\* What the backend behind the client would answer: the HTTP status and
\* whether the body is well-formed JSON.
BackendStatuses == {200, 404, 401, 429}
Backends == [status : BackendStatuses, body : {"json", "malformed"}]

Repos == {"owner/name"}
Urls == {GITEA_ENDPOINT, "https://git.example.com"}
Tokens == {None, Some("token")}
Clients == {Client_new(url, token) : url \in Urls, token \in Tokens}
GiteaGitServices == {[client |-> c] : c \in Clients}
ListOptionsSet == {[page |-> 1, size |-> 30]}
References == {"main", "does-not-exist"}
TreeShas == {"4b825dc"}

ListBranches ==
  /\ op = "idle"
  /\ \E self \in GiteaGitServices, repo \in Repos, opts \in ListOptionsSet, backend \in Backends :
       /\ op' = "list_branches"
       /\ arg' = [self |-> self, repo |-> repo, opts |-> opts, backend |-> backend]
       /\ ret' = list_branches(self, repo, opts)

ListTags ==
  /\ op = "idle"
  /\ \E self \in GiteaGitServices, repo \in Repos, opts \in ListOptionsSet, backend \in Backends :
       /\ op' = "list_tags"
       /\ arg' = [self |-> self, repo |-> repo, opts |-> opts, backend |-> backend]
       /\ ret' = list_tags(self, repo, opts)

FindCommit ==
  /\ op = "idle"
  /\ \E self \in GiteaGitServices, repo \in Repos, reference \in References, backend \in Backends :
       /\ op' = "find_commit"
       /\ arg' = [self |-> self, repo |-> repo, reference |-> reference, backend |-> backend]
       /\ ret' = find_commit(self, repo, reference)

GetTree ==
  /\ op = "idle"
  /\ \E self \in GiteaGitServices, repo \in Repos, tree_sha \in TreeShas,
        recursive \in {None, Some(TRUE), Some(FALSE)}, backend \in Backends :
       /\ op' = "get_tree"
       /\ arg' = [self |-> self, repo |-> repo, tree_sha |-> tree_sha,
                  recursive |-> recursive, backend |-> backend]
       /\ ret' = get_tree(self, repo, tree_sha, recursive)

\* C2: find_commit for a ref the backend reports as missing (HTTP 404)
\* completes with Ok(None): no error, no panic.
C2_FindCommitMissingIsAbsent ==
  (op = "find_commit" /\ arg.backend.status = 404) =>
    (ret.tag = "Ok" /\ ret.val = None)

\* C3: list_branches and list_tags against a backend whose body is malformed
\* JSON return a Decode error: no panic, no successful list.
C3_MalformedListingIsDecodeError ==
  (op \in {"list_branches", "list_tags"} /\ arg.backend.status = 200
     /\ arg.backend.body = "malformed") =>
    (ret.tag = "Err" /\ ret.val = "Decode")

\* C6: the contract declares get_tree(repo, tree_sha, recursive: optional bool)
\* -> optional Tree, and the operations the Gitea adapter implements are exactly
\* the operations the contract declares: whenever an operation of the adapter
\* is called, it is one the contract declares with that signature, and the
\* adapter leaves none of the contract's operations out.
C6_AdapterImplementsExactlyTheContract ==
  \A called \in GiteaGitServiceImpl :
    op = called.name =>
      /\ called \in GitService
      /\ Signature("get_tree", <<"&str", "&str", "Option<bool>">>,
                   "anyhow::Result<Option<Tree>>") \in GitService
      /\ GiteaGitServiceImpl = GitService

(***************************************************************************)
(* scm/git.rs: TreeResponse and TreeEntry, decoded from JSON by the        *)
(* derived Deserialize.  A JSON value is [t |-> type, v |-> value]; an     *)
(* object's value is a function from the keys it carries.                  *)
(***************************************************************************)
JNull == [t |-> "null", v |-> "null"]
JBool(b) == [t |-> "bool", v |-> b]
JString(x) == [t |-> "string", v |-> x]
JNumber(n) == [t |-> "number", v |-> n]
JArray(xs) == [t |-> "array", v |-> xs]
JObject(f) == [t |-> "object", v |-> f]

\* A field left out of an object under construction.
Absent == [t |-> "absent", v |-> "absent"]
\* The object carrying the fields of f that are not Absent.
ObjectOf(f) == JObject([k \in {x \in DOMAIN f : f[x].t # "absent"} |-> f[k]])

DecodeError == Err("Decode")

\* A String from a JSON value.
StringOf(json) == IF json.t = "string" THEN Ok(json.v) ELSE DecodeError

\* A bool from a JSON value.
BoolOf(json) == IF json.t = "bool" THEN Ok(json.v) ELSE DecodeError

\* An Option<u64> from a JSON value: null is None.
OptionU64Of(json) ==
  IF json.t = "null" THEN Ok(None)
  ELSE IF json.t = "number" /\ json.v >= 0 THEN Ok(Some(json.v))
  ELSE DecodeError

\* A required String field of an object.
DeString(obj, key) ==
  IF key \notin DOMAIN obj THEN DecodeError ELSE StringOf(obj[key])

\* A mutant of DeBool: a missing or null field takes bool's default.
DeBoolDefaulted(obj, key) ==
  IF key \notin DOMAIN obj THEN Ok(FALSE)
  ELSE IF obj[key].t = "null" THEN Ok(FALSE) ELSE BoolOf(obj[key])

\* A required bool field of an object: the field carries no #[serde(default)].
DeBool(obj, key) ==
  IF key \notin DOMAIN obj THEN DecodeError ELSE BoolOf(obj[key])

\* An Option<u64> field of an object: a missing key is None.
DeOptionU64(obj, key) ==
  IF key \notin DOMAIN obj THEN Ok(None) ELSE OptionU64Of(obj[key])

\* The TreeEntry of six decoded fields, or the decode error of any of them.
TreeEntryOf(path, mode, entry_type, size, sha, url) ==
  IF \/ path.tag = "Err" \/ mode.tag = "Err" \/ entry_type.tag = "Err"
     \/ size.tag = "Err" \/ sha.tag = "Err" \/ url.tag = "Err"
  THEN DecodeError
  ELSE Ok([path |-> path.val, mode |-> mode.val, entry_type |-> entry_type.val,
           size |-> size.val, sha |-> sha.val, url |-> url.val])

\* TreeEntry.  The derived Deserialize takes the struct as an object, by key
\* (unknown keys are ignored), or as an array, by position: in an array every
\* field, the optional one too, must have its element, and none may follow.
DeTreeEntry(json) ==
  IF json.t = "object" THEN
    LET obj == json.v
    IN TreeEntryOf(DeString(obj, "path"), DeString(obj, "mode"), DeString(obj, "type"),
                   DeOptionU64(obj, "size"), DeString(obj, "sha"), DeString(obj, "url"))
  ELSE IF json.t = "array" THEN
    LET xs == json.v
    IN IF Len(xs) # 6 THEN DecodeError
       ELSE TreeEntryOf(StringOf(xs[1]), StringOf(xs[2]), StringOf(xs[3]),
                        OptionU64Of(xs[4]), StringOf(xs[5]), StringOf(xs[6]))
  ELSE DecodeError

\* Vec<TreeEntry> from a JSON value.
TreeEntriesOf(json) ==
  IF json.t # "array" THEN DecodeError
  ELSE LET xs == json.v
       IN IF \E i \in 1..Len(xs) : DeTreeEntry(xs[i]).tag = "Err"
          THEN DecodeError
          ELSE Ok([i \in 1..Len(xs) |-> DeTreeEntry(xs[i]).val])

\* The required Vec<TreeEntry> field of an object.
DeTreeEntries(obj, key) ==
  IF key \notin DOMAIN obj THEN DecodeError ELSE TreeEntriesOf(obj[key])

\* The TreeResponse of four decoded fields, or the decode error of any of them.
TreeResponseOf(sha, url, tree, truncated) ==
  IF sha.tag = "Err" \/ url.tag = "Err" \/ tree.tag = "Err" \/ truncated.tag = "Err"
  THEN DecodeError
  ELSE Ok([sha |-> sha.val, url |-> url.val, tree |-> tree.val,
           truncated |-> truncated.val])

\* TreeResponse: as an object by key, or as an array by position.
DeTreeResponse(json) ==
  IF json.t = "object" THEN
    LET obj == json.v
    IN TreeResponseOf(DeString(obj, "sha"), DeString(obj, "url"),
                      DeTreeEntries(obj, "tree"), DeBool(obj, "truncated"))
  ELSE IF json.t = "array" THEN
    LET xs == json.v
    IN IF Len(xs) # 4 THEN DecodeError
       ELSE TreeResponseOf(StringOf(xs[1]), StringOf(xs[2]),
                           TreeEntriesOf(xs[3]), BoolOf(xs[4]))
  ELSE DecodeError

\* Backend tree payloads, in object form or in array form; a value that is
\* Absent is left out of the object or of the array.
Forms == {"object", "array"}
ArrayOf(xs) == JArray(SelectSeq(xs, LAMBDA x : x.t # "absent"))
EntryPayload(form, size, sha) ==
  IF form = "object"
  THEN ObjectOf([path |-> JString("README.md"), mode |-> JString("100644"),
                 type |-> JString("blob"), size |-> size, sha |-> sha,
                 url |-> JString("https://git.example.com/blob")])
  ELSE ArrayOf(<<JString("README.md"), JString("100644"), JString("blob"), size, sha,
                 JString("https://git.example.com/blob")>>)
EntrySizes == <<Absent, JNull, JNumber(12), JString("12")>>
EntryShas == <<Absent, JString("e69de29")>>
EntryChoices == Forms \X (1..Len(EntrySizes)) \X (1..Len(EntryShas))
EntryPayloadOf(choice) ==
  EntryPayload(choice[1], EntrySizes[choice[2]], EntryShas[choice[3]])
TruncatedValues == <<Absent, JNull, JBool(TRUE), JBool(FALSE), JString("true"), JNumber(1)>>
TreeShaValues == <<Absent, JString("4b825dc")>>
TreePayload(form, sha, tree, truncated) ==
  IF form = "object"
  THEN ObjectOf([sha |-> sha, url |-> JString("https://git.example.com/tree"),
                 tree |-> tree, truncated |-> truncated])
  ELSE ArrayOf(<<sha, JString("https://git.example.com/tree"), tree, truncated>>)

DecodeTree ==
  /\ op = "idle"
  /\ \E form \in Forms,
        s \in 1..Len(TreeShaValues),
        choices \in StrOver(EntryChoices, MaxTreeEntries),
        t \in 1..Len(TruncatedValues) :
       /\ op' = "TreeResponse::deserialize"
       /\ arg' = TreePayload(form, TreeShaValues[s],
                             JArray([i \in 1..Len(choices) |-> EntryPayloadOf(choices[i])]),
                             TruncatedValues[t])
       /\ ret' = DeTreeResponse(arg')

\* Whether a payload is an object carrying the key.
HasKey(json, key) == json.t = "object" /\ key \in DOMAIN json.v

\* The truncated value a payload carries: the value under the "truncated" key
\* of an object, the fourth element of an array, or Absent.
PayloadTruncated(json) ==
  IF json.t = "object"
  THEN IF "truncated" \in DOMAIN json.v THEN json.v["truncated"] ELSE Absent
  ELSE IF json.t = "array" /\ Len(json.v) >= 4 THEN json.v[4] ELSE Absent

\* C7 as claimed: a decoded tree's truncated flag is the value of the payload's
\* truncated field, and a payload that carries no truncated field (no
\* "truncated" key) is rejected as a decode failure instead of decoding to
\* truncated = false.
C7_NoTruncatedKeyIsRejected ==
  op = "TreeResponse::deserialize" =>
    /\ ret.tag = "Ok" =>
         /\ HasKey(arg, "truncated")
         /\ arg.v["truncated"].t = "bool"
         /\ ret.val.truncated = arg.v["truncated"].v
    /\ ~HasKey(arg, "truncated") => (ret.tag = "Err" /\ ret.val = "Decode")

\* C7, amended: truncation is never defaulted.  A decoded tree's truncated flag
\* is the truncated value the payload carries (under the "truncated" key of an
\* object, or as the fourth element of an array), and a payload that carries
\* no truncated value is rejected as a decode failure.
C7_TruncatedNeverDefaulted ==
  op = "TreeResponse::deserialize" =>
    /\ ret.tag = "Ok" =>
         /\ PayloadTruncated(arg).t = "bool"
         /\ ret.val.truncated = PayloadTruncated(arg).v
    /\ PayloadTruncated(arg).t = "absent" => (ret.tag = "Err" /\ ret.val = "Decode")

\* C7 witness: an array-form payload with an entry and truncated = true was
\* decoded, and the decoded tree says truncated.
C7_Witness ==
  /\ op = "TreeResponse::deserialize"
  /\ arg.t = "array"
  /\ ret.tag = "Ok"
  /\ Len(ret.val.tree) > 0
  /\ ret.val.truncated = TRUE

(***************************************************************************)
(* scm/driver/gitea/mod.rs: the Gitea factory.                             *)
(***************************************************************************)
\* A mutant of gitea_from: the client is wrapped as another provider's driver.
gitea_from_other_variant(client) == [variant |-> "Github", driver |-> [client |-> client]]

\* from(client): Driver::Gitea(GiteaDriver { client }).
gitea_from(client) == [variant |-> "Gitea", driver |-> [client |-> client]]

\* new(url, token)
gitea_new(url, token) == gitea_from(Client_new(url, token))

\* default()
gitea_default == gitea_from(Client_new(GITEA_ENDPOINT, None))

GiteaDefault ==
  /\ op = "idle"
  /\ op' = "gitea::default"
  /\ arg' = None
  /\ ret' = gitea_default

GiteaNew ==
  /\ op = "idle"
  /\ \E url \in Urls, token \in Tokens :
       /\ op' = "gitea::new"
       /\ arg' = [url |-> url, token |-> token]
       /\ ret' = gitea_new(url, token)

GiteaFrom ==
  /\ op = "idle"
  /\ \E client \in Clients :
       /\ op' = "gitea::from"
       /\ arg' = [client |-> client]
       /\ ret' = gitea_from(client)

\* C4: default() yields a Gitea driver whose client is bound to the default
\* endpoint with no token; new(url, token) yields a Gitea driver whose client is
\* bound to exactly that url and token; both equal from applied to the client
\* built from those parameters; from(client) wraps exactly that client; no
\* construction yields another provider's variant.
C4_GiteaFactoryConstruction ==
  /\ op \in {"gitea::default", "gitea::new", "gitea::from"} =>
       /\ DOMAIN ret = {"variant", "driver"}
       /\ ret.variant = "Gitea"
       /\ DOMAIN ret.driver = {"client"}
  /\ op = "gitea::default" =>
       /\ ret.driver.client.base_url = GITEA_ENDPOINT
       /\ ret.driver.client.token = <<>>
       /\ ret = gitea_from(Client_new(GITEA_ENDPOINT, None))
  /\ op = "gitea::new" =>
       /\ ret.driver.client.base_url = arg.url
       /\ ret.driver.client.token = arg.token
       /\ ret = gitea_from(Client_new(arg.url, arg.token))
  /\ op = "gitea::from" => ret.driver.client = arg.client

\* C4 witness: new was called with an endpoint other than the default and a token.
C4_Witness ==
  /\ op = "gitea::new"
  /\ arg.url # GITEA_ENDPOINT
  /\ arg.token # <<>>
  /\ ret.variant = "Gitea"

(***************************************************************************)
(* Dispatch: a driver from a provider kind, an optional base URL and an    *)
(* optional token.                                                         *)
(***************************************************************************)
ProviderKinds == {"gitea", "gitee", ""}

\* A mutant of driver_for: an unrecognized kind falls back to a Gitea driver.
driver_for_fallback(kind, url, token) ==
  IF url = None THEN Ok(gitea_default) ELSE Ok(gitea_new(url[1], token))

driver_for(kind, url, token) ==
  IF kind = "gitea"
  THEN IF url = None THEN Ok(gitea_default) ELSE Ok(gitea_new(url[1], token))
  ELSE Err("Config")

Dispatch ==
  /\ op = "idle"
  /\ \E kind \in ProviderKinds, url \in {None} \cup {Some(u) : u \in Urls}, token \in Tokens :
       /\ op' = "dispatch"
       /\ arg' = [kind |-> kind, url |-> url, token |-> token]
       /\ ret' = driver_for(kind, url, token)

\* C5: dispatch with an unrecognized provider kind fails at construction with
\* a configuration error: no handle is returned for it.
C5_UnrecognizedKindFailsConstruction ==
  (op = "dispatch" /\ arg.kind # "gitea") => (ret.tag = "Err" /\ ret.val = "Config")

\* C5 witness: a dispatch with an unrecognized kind and an explicit URL failed.
C5_Witness ==
  /\ op = "dispatch"
  /\ arg.kind = "gitee"
  /\ arg.url # <<>>
  /\ ret.tag = "Err"

(***************************************************************************)
(* schema/actor.rs: ActorState, the conditions it builds, and the          *)
(* predicates of ActorStatus.                                              *)
(***************************************************************************)
IsUpper(c) == c \in {AsciiChars[i] : i \in 34..59}
IsLower(c) == c \in {AsciiChars[i] : i \in 66..91}
IsDigit(c) == c \in {AsciiChars[i] : i \in 17..26}
IsDelimiter(c) == c \in {"_", "-", " "}
ToUpper(c) == IF IsLower(c) THEN Chr(Ord(c) - 32) ELSE c
ToLower(c) == IF IsUpper(c) THEN Chr(Ord(c) + 32) ELSE c

\* convert_case: whether a word boundary lies between s[i-1] and s[i]
\* (lower-upper, the four letter-digit boundaries, and the acronym boundary).
BoundaryBefore(s, i) ==
  /\ i > 1
  /\ \/ IsLower(s[i-1]) /\ IsUpper(s[i])
     \/ IsUpper(s[i-1]) /\ IsDigit(s[i])
     \/ IsDigit(s[i-1]) /\ IsUpper(s[i])
     \/ IsDigit(s[i-1]) /\ IsLower(s[i])
     \/ IsLower(s[i-1]) /\ IsDigit(s[i])
     \/ IsUpper(s[i-1]) /\ IsUpper(s[i]) /\ i < Len(s) /\ IsLower(s[i+1])

\* convert_case: the words of s: split at delimiters, which are dropped, and at
\* boundaries; empty words are dropped.
RECURSIVE SplitWords(_, _, _, _)
SplitWords(s, i, cur, acc) ==
  LET flushed == IF cur = <<>> THEN acc ELSE Append(acc, cur)
  IN IF i > Len(s) THEN flushed
     ELSE IF IsDelimiter(s[i]) THEN SplitWords(s, i + 1, <<>>, flushed)
     ELSE IF cur # <<>> /\ BoundaryBefore(s, i) THEN SplitWords(s, i + 1, <<s[i]>>, flushed)
     ELSE SplitWords(s, i + 1, Append(cur, s[i]), acc)

\* convert_case: the capital pattern: the first letter upper, the rest lower.
Capital(w) == [i \in 1..Len(w) |-> IF i = 1 THEN ToUpper(w[i]) ELSE ToLower(w[i])]

RECURSIVE Concat(_)
Concat(ws) == IF ws = <<>> THEN <<>> ELSE Head(ws) \o Concat(Tail(ws))

\* s.to_case(Case::Pascal)
to_case_pascal(s) ==
  LET ws == SplitWords(s, 1, <<>>, <<>>)
  IN Concat([i \in 1..Len(ws) |-> Capital(ws[i])])

\* bool::to_string
bool_to_string(b) == IF b THEN <<"t", "r", "u", "e">> ELSE <<"f", "a", "l", "s", "e">>

ActorStates == {"ActorState::Pending", "ActorState::Building",
                "ActorState::Running", "ActorState::Failed"}

\* impl Display for ActorState
ActorState_to_string(state) ==
  CASE state = "ActorState::Pending" -> "Pending"
    [] state = "ActorState::Building" -> "Building"
    [] state = "ActorState::Running" -> "Running"
    [] state = "ActorState::Failed" -> "Failed"

\* ActorState::create, at clock reading now.
ActorState_create(state, status, reason, message, now) ==
  [type_ |-> ActorState_to_string(state),
   status |-> to_case_pascal(bool_to_string(status)),
   last_transition_time |-> now,
   reason |-> to_case_pascal(reason),
   observed_generation |-> None,
   message |-> IF message = None THEN "" ELSE message[1]]

ActorState_pending(now) ==
  ActorState_create("ActorState::Pending", TRUE, <<"C", "r", "e", "a", "t", "e", "d">>, None, now)
ActorState_building(now) ==
  ActorState_create("ActorState::Building", TRUE, <<"B", "u", "i", "l", "d">>, None, now)
ActorState_running(status, reason, message, now) ==
  ActorState_create("ActorState::Running", status, reason, message, now)
ActorState_failed(status, reason, message, now) ==
  ActorState_create("ActorState::Failed", status, reason, message, now)

\* A mutant of ActorStatus_state: the condition's status is not looked at.
ActorStatus_state_any_status(self, s, status) ==
  \E i \in 1..Len(self.conditions) :
    self.conditions[i].type_ = ActorState_to_string(s)

\* ActorStatus::state
ActorStatus_state(self, s, status) ==
  \E i \in 1..Len(self.conditions) :
    /\ self.conditions[i].type_ = ActorState_to_string(s)
    /\ self.conditions[i].status = to_case_pascal(bool_to_string(status))

ActorStatus_pending(self) == ActorStatus_state(self, "ActorState::Pending", TRUE)
ActorStatus_building(self) == ActorStatus_state(self, "ActorState::Building", TRUE)
ActorStatus_running(self) == ActorStatus_state(self, "ActorState::Running", TRUE)
ActorStatus_failed(self) == ActorStatus_state(self, "ActorState::Failed", TRUE)

\* Inputs.
Times == 0..MaxTime
Reasons == { <<"A", "u", "t", "o", "S", "y", "n", "c">>,
             <<"b", "u", "i", "l", "d", " ", "f", "a", "i", "l", "e", "d">>,
             <<"H", "T", "T", "P", "E", "r", "r", "o", "r">>,
             <<"e", "x", "i", "t", "_", "1">>,
             <<>> }
Messages == {None, Some("message")}

\* The conditions an ActorStatus may hold: those ActorState builds, and
\* conditions of other types and statuses read from the cluster.
ConditionTypes == {"Pending", "Building", "Running", "Failed", "Ready"}
ConditionStatuses == { <<"T", "r", "u", "e">>, <<"F", "a", "l", "s", "e">>,
                       <<"U", "n", "k", "n", "o", "w", "n">> }
Conditions ==
  [type_ : ConditionTypes, status : ConditionStatuses, last_transition_time : {0},
   reason : {<<"R", "e", "a", "s", "o", "n">>}, observed_generation : {None},
   message : {""}]
ActorStatuses == [conditions : StrOver(Conditions, MaxConditions)]

NewPending ==
  /\ op = "idle"
  /\ \E now \in Times :
       /\ op' = "ActorState::pending"
       /\ arg' = [now |-> now]
       /\ ret' = ActorState_pending(now)

NewBuilding ==
  /\ op = "idle"
  /\ \E now \in Times :
       /\ op' = "ActorState::building"
       /\ arg' = [now |-> now]
       /\ ret' = ActorState_building(now)

NewRunning ==
  /\ op = "idle"
  /\ \E status \in BOOLEAN, reason \in Reasons, message \in Messages, now \in Times :
       /\ op' = "ActorState::running"
       /\ arg' = [status |-> status, reason |-> reason, message |-> message, now |-> now]
       /\ ret' = ActorState_running(status, reason, message, now)

NewFailed ==
  /\ op = "idle"
  /\ \E status \in BOOLEAN, reason \in Reasons, message \in Messages, now \in Times :
       /\ op' = "ActorState::failed"
       /\ arg' = [status |-> status, reason |-> reason, message |-> message, now |-> now]
       /\ ret' = ActorState_failed(status, reason, message, now)

IsPending ==
  /\ op = "idle"
  /\ \E self \in ActorStatuses :
       /\ op' = "ActorStatus::pending"
       /\ arg' = self
       /\ ret' = ActorStatus_pending(self)

IsBuilding ==
  /\ op = "idle"
  /\ \E self \in ActorStatuses :
       /\ op' = "ActorStatus::building"
       /\ arg' = self
       /\ ret' = ActorStatus_building(self)

IsRunning ==
  /\ op = "idle"
  /\ \E self \in ActorStatuses :
       /\ op' = "ActorStatus::running"
       /\ arg' = self
       /\ ret' = ActorStatus_running(self)

IsFailed ==
  /\ op = "idle"
  /\ \E self \in ActorStatuses :
       /\ op' = "ActorStatus::failed"
       /\ arg' = self
       /\ ret' = ActorStatus_failed(self)

TrueText == <<"T", "r", "u", "e">>
FalseText == <<"F", "a", "l", "s", "e">>
HasTrueCondition(conditions, type) ==
  \E i \in 1..Len(conditions) : conditions[i].type_ = type /\ conditions[i].status = TrueText

\* C8: a condition built by ActorState::pending, building, running or failed
\* has the state's name as its type and "True" or "False", matching the boolean,
\* as its status (pending and building always "True"); and each predicate of
\* ActorStatus is true exactly when the list holds a condition of that state's
\* type whose status is "True".
C8_ConditionsAndPredicatesAgree ==
  /\ op = "ActorState::pending" => (ret.type_ = "Pending" /\ ret.status = TrueText)
  /\ op = "ActorState::building" => (ret.type_ = "Building" /\ ret.status = TrueText)
  /\ op = "ActorState::running" =>
       (ret.type_ = "Running" /\ ret.status = IF arg.status THEN TrueText ELSE FalseText)
  /\ op = "ActorState::failed" =>
       (ret.type_ = "Failed" /\ ret.status = IF arg.status THEN TrueText ELSE FalseText)
  /\ op = "ActorStatus::pending" => (ret <=> HasTrueCondition(arg.conditions, "Pending"))
  /\ op = "ActorStatus::building" => (ret <=> HasTrueCondition(arg.conditions, "Building"))
  /\ op = "ActorStatus::running" => (ret <=> HasTrueCondition(arg.conditions, "Running"))
  /\ op = "ActorStatus::failed" => (ret <=> HasTrueCondition(arg.conditions, "Failed"))

\* C8 witness: failed() was asked of a status whose only Failed condition has
\* status "False", beside a Running condition with status "True", and said no.
C8_Witness ==
  /\ op = "ActorStatus::failed"
  /\ Len(arg.conditions) = 2
  /\ arg.conditions[1].type_ = "Failed" /\ arg.conditions[1].status = FalseText
  /\ arg.conditions[2].type_ = "Running" /\ arg.conditions[2].status = TrueText
  /\ ret = FALSE

(***************************************************************************)
(* schema/actor.rs: the port helpers of ActorSpec.                         *)
(***************************************************************************)
\* ContainerPort::from(&Port) and ServicePort::from(&Port) (schema/service.rs).
ContainerPortFrom(p) == [container_port |-> p.port, protocol |-> p.protocol]
ServicePortFrom(p) == [port |-> p.port, protocol |-> p.protocol]

\* Option::unwrap_or_default on Option<bool>
unwrap_or_default(o) == IF o = None THEN FALSE ELSE o[1]

\* Vec::is_empty
is_empty(v) == Len(v) = 0

\* Option::filter with the closure |v| v.is_empty(): Some(v) is kept only
\* when the closure answers true.
filter_is_empty(o) == IF o # None /\ is_empty(o[1]) THEN o ELSE None

\* The loop of container_ports: every port of every service, in order.
RECURSIVE AppendContainerPorts(_, _)
AppendContainerPorts(ports, services) ==
  IF services = <<>> THEN ports
  ELSE LET service == Head(services)
           items == [i \in 1..Len(service.ports) |-> ContainerPortFrom(service.ports[i])]
       IN AppendContainerPorts(ports \o items, Tail(services))

\* The loop of service_ports: the ports whose expose flag is true, in order.
RECURSIVE AppendServicePorts(_, _)
AppendServicePorts(ports, services) ==
  IF services = <<>> THEN ports
  ELSE LET service == Head(services)
           exposed == SelectSeq(service.ports, LAMBDA p : unwrap_or_default(p.expose))
           items == [i \in 1..Len(exposed) |-> ServicePortFrom(exposed[i])]
       IN AppendServicePorts(ports \o items, Tail(services))

\* ActorSpec::container_ports
container_ports(self) ==
  IF self.services = None THEN None
  ELSE filter_is_empty(Some(AppendContainerPorts(<<>>, self.services[1])))

\* ActorSpec::service_ports
service_ports(self) ==
  IF self.services = None THEN None
  ELSE filter_is_empty(Some(AppendServicePorts(<<>>, self.services[1])))

\* Inputs.
Ports == { [port |-> 80, protocol |-> "TCP", expose |-> None],
           [port |-> 443, protocol |-> "TCP", expose |-> Some(TRUE)],
           [port |-> 8080, protocol |-> "TCP", expose |-> Some(FALSE)] }
Services == [ports : StrOver(Ports, MaxPorts)]
ActorSpecs == [services : {None} \cup {Some(ss) : ss \in StrOver(Services, MaxServices)}]

ContainerPorts ==
  /\ op = "idle"
  /\ \E self \in ActorSpecs :
       /\ op' = "container_ports"
       /\ arg' = self
       /\ ret' = container_ports(self)

ServicePorts ==
  /\ op = "idle"
  /\ \E self \in ActorSpecs :
       /\ op' = "service_ports"
       /\ arg' = self
       /\ ret' = service_ports(self)

\* Every port of every service, in service order and then port order.
RECURSIVE AllPorts(_)
AllPorts(services) ==
  IF services = <<>> THEN <<>> ELSE Head(services).ports \o AllPorts(Tail(services))

\* C9: container_ports returns None when services is absent; when services is
\* present it returns Some(list), one container port for every port of every
\* service in service order and then port order, so an actor with a declared
\* service port gets a non-empty list back.
C9_ContainerPortsListsEveryPort ==
  op = "container_ports" =>
    IF arg.services = None THEN ret = None
    ELSE LET all == AllPorts(arg.services[1])
         IN /\ ret # None
            /\ ret = Some([i \in 1..Len(all) |-> ContainerPortFrom(all[i])])
            /\ (Len(all) > 0 => Len(ret[1]) > 0)

\* C10: service_ports returns None when services is absent; when services is
\* present it returns Some(list) holding, in service order and then port order,
\* exactly the ports whose expose flag is true, so an actor with an exposed port
\* gets a non-empty list back.
C10_ServicePortsListsExposedPorts ==
  op = "service_ports" =>
    IF arg.services = None THEN ret = None
    ELSE LET exposed == SelectSeq(AllPorts(arg.services[1]), LAMBDA p : p.expose = Some(TRUE))
         IN /\ ret # None
            /\ ret = Some([i \in 1..Len(exposed) |-> ServicePortFrom(exposed[i])])
            /\ (Len(exposed) > 0 => Len(ret[1]) > 0)

(***************************************************************************)
(* The caller takes the result: the library is ready for the next call.    *)
(***************************************************************************)
Return ==
  /\ op # "idle"
  /\ op' = "idle"
  /\ arg' = None
  /\ ret' = None

(***************************************************************************)
(* Specification.                                                          *)
(***************************************************************************)
Init ==
  /\ op = "idle"
  /\ arg = None
  /\ ret = None

Next ==
  \/ BuildDockerConfig
  \/ ListBranches
  \/ ListTags
  \/ FindCommit
  \/ GetTree
  \/ DecodeTree
  \/ GiteaDefault
  \/ GiteaNew
  \/ GiteaFrom
  \/ Dispatch
  \/ NewPending
  \/ NewBuilding
  \/ NewRunning
  \/ NewFailed
  \/ IsPending
  \/ IsBuilding
  \/ IsRunning
  \/ IsFailed
  \/ ContainerPorts
  \/ ServicePorts
  \/ Return

Spec == Init /\ [][Next]_vars
====
